---- MODULE Spec2Model ----
(***************************************************************************)
(* The live microphone panel of src/Hindi_STT.py and the units of the      *)
(* dashboard of src/Testing_STT.py.                                        *)
(*                                                                         *)
(* Hindi_STT.py is a Streamlit script.  Streamlit executes the whole file  *)
(* from line 1 to the end once per user interaction (a "run"), each run in *)
(* a new __main__ module: the module-level statements of lines 13-23       *)
(* (model, rec, keep_listening, final_text, q) are executed again by every *)
(* run and bind fresh globals.  Only st.session_state (is_listening,       *)
(* transcript) survives from one run to the next.  A thread started by a   *)
(* run keeps the globals of the run that defined listen_audio and callback *)
(* (the functions' __globals__), whatever later runs assign.               *)
(*                                                                         *)
(* A namespace is therefore one run's globals.  Namespace s >= 1 is the    *)
(* run in which Start was clicked for the s-th time (kept alive by its     *)
(* thread); namespace 0 stands for the globals of the latest run that      *)
(* started no thread (nothing refers to them once the run is over).        *)
(*                                                                         *)
(* A run ends at the end of the file, or stays in the render loop of lines *)
(* 159-165 until the next click interrupts it at one of the loop's st.*    *)
(* calls.  A button is clickable as the previous run rendered it: its      *)
(* disabled= argument is evaluated when the st.button line executes.       *)
(*                                                                         *)
(* The recognizer (vosk.KaldiRecognizer) is modelled by its contract: it   *)
(* buffers the words heard since the last endpoint, AcceptWaveform returns *)
(* true on a silence chunk (an endpoint) and Result() is then the buffered *)
(* words joined by single spaces.                                          *)
(*                                                                         *)
(* Testing_STT.py holds three units that share no state: the class         *)
(* LiveVoskRecognizer (lines 30-43), the file transcription of             *)
(* VoskSpeechRecognizer with the upload tab that calls it (lines 46-131,   *)
(* 465-492) and the browser speech component (lines 200-440).  A behaviour *)
(* of the model exercises one unit: the variable unit names it, the        *)
(* variables of the other units keep their initial values.                 *)
(***************************************************************************)
EXTENDS Naturals, Sequences, FiniteSets

\* Bounds of the model: the number of Start clicks, the number of spoken words
\* the device captures in all (silence chunks are not bounded), and the number
\* of chunks waiting in one queue (queue.Queue() itself is unbounded).
MaxSessions == 2
MaxWords == 2
MaxQueue == 2

\* Bounds of the dashboard units: the number of calls of
\* LiveVoskRecognizer.process, the number of recognition events the browser
\* delivers and the number of chunks of an uploaded file.
MaxCalls == 3
MaxEvents == 3
MaxChunks == 4

\* Chunk sequence numbers are kept modulo SeqMod (one more than a full queue).
SeqMod == MaxQueue + 1

Sessions == 1..MaxSessions
Namespaces == 0..MaxSessions

\* Texts are sequences of tokens: a word <<session, k>>, the k-th spoken word
\* as captured by the stream of that session, or the separator <<" ">>.  A chunk is
\* the session whose stream captured it, its sequence number in that stream
\* and the word it carries (0: silence).
SP == <<" ">>
NoChunk == [sess |-> 0, seq |-> 0, word |-> 0]

VARIABLES
  is_listening,    \* st.session_state.is_listening
  transcript,      \* st.session_state.transcript
  start_disabled,  \* the Start button as last rendered (line 136)
  stop_disabled,   \* the Stop button as last rendered (line 145)
  runNs,           \* the namespace of the latest run
  inLoop,          \* the latest run is in the render loop (lines 159-165)
  nsess,           \* number of runs that started a thread
  keep_listening,  \* per namespace: global keep_listening
  final_text,      \* per namespace: global final_text
  q,               \* per namespace: global q (queue.Queue)
  rec,             \* per namespace: global rec, the words not yet finalized
  pc,              \* per session: position of its listen_audio thread
  data,            \* per session: local data of listen_audio while it is live
  newtext,         \* per session: the value of final_text + text + " " that
                   \* line 40 has computed and not yet stored
  stream,          \* per session: the sd.InputStream of its with statement:
                   \* "none", "open", "closed"
  nclose,          \* per session: number of times that stream was closed
  nput,            \* per session: sequence number of the last q.put
  nword,           \* number of spoken words the device has captured
  lastFed,         \* history: sequence number of the last chunk fed
  stopReq,         \* history: Stop was clicked while the session was current
  lateGet,         \* history: data was dequeued after Stop was requested
  finalized,       \* history: what was finalized while the session was
                   \* Active, since its Start or the latest Clear
  clears           \* history: consecutive Clear clicks on a stopped session
                   \* since its transcript was last non-empty (at most 2)

\* The unit a behaviour exercises, and whether the directory VOSK_MODEL_PATH
\* of Hindi_STT.py holds a model: vosk.Model (line 13) returns one, or raises.
VARIABLES unit, model

\* LiveVoskRecognizer (Testing_STT.py lines 30-43).
VARIABLES
  lv_rec,          \* self.rec, the words not yet finalized
  lv_transcript,   \* self.transcript
  lv_calls         \* number of calls of process

\* The browser speech component (Testing_STT.py lines 300-400).
VARIABLES
  finalTranscript, \* let finalTranscript
  finalSpan,       \* finalSpan.innerText
  interimSpan,     \* interimSpan.innerText
  nevents,         \* number of recognition events delivered
  webCleared,      \* history: consecutive clearTranscript calls since the
                   \* transcript was last non-empty (at most 2)
  recognition      \* let recognition is set: the browser has SpeechRecognition

\* VoskSpeechRecognizer and the upload tab (Testing_STT.py lines 46-131,
\* 465-492).
VARIABLES
  LIBROSA_AVAILABLE, \* module constant of lines 20-24
  model_loaded,    \* st.session_state.model_loaded
  vosk_recognizer, \* st.session_state.vosk_recognizer: "None" or "object"
  vosk_model,      \* st.session_state.vosk_recognizer.model is set
  load_message,    \* the message the Load Vosk Model button last passed to
                   \* st.success or st.error
  vosk_transcript, \* st.session_state.vosk_transcript
  f_pc,            \* position in transcribe_audio_file
  f_file,          \* the file being transcribed
  f_i,             \* number of loop iterations done (i = f_i * chunk_size)
  f_rec,           \* local rec, the words not yet finalized
  f_text,          \* local transcript
  f_fed,           \* history: the slices fed to the recognizer by this call
  f_segs,          \* history: the texts the recognizer returned to this call
  tmp_file,        \* the temporary file of this call
  probe,           \* history: the file whose results are compared
  memo,            \* history: the calls on probe and what the first returned
  returned         \* history: the latest call was not ended before it
                   \* returned a value to line 479

liveVars == <<is_listening, transcript, start_disabled, stop_disabled, runNs,
              inLoop, nsess, keep_listening, final_text, q, rec, pc, data,
              newtext, stream, nclose, nput, nword, lastFed, stopReq, lateGet,
              finalized, clears>>

lvVars == <<lv_rec, lv_transcript, lv_calls>>

webVars == <<finalTranscript, finalSpan, interimSpan, nevents, webCleared,
             recognition>>

\* What the Load Vosk Model button writes.
loadVars == <<model_loaded, vosk_recognizer, vosk_model, load_message>>

fileVars == <<LIBROSA_AVAILABLE, loadVars, vosk_transcript,
              f_pc, f_file, f_i, f_rec, f_text, f_fed, f_segs, tmp_file,
              probe, memo, returned>>

\* What no step changes.
envVars == <<unit, model>>

\* The variables of the dashboard units, with those no step changes.
dashVars == <<envVars, lvVars, webVars, fileVars>>

vars == <<liveVars, dashVars>>

uiVars == <<is_listening, transcript, start_disabled, stop_disabled, runNs,
            inLoop, nsess>>

----------------------------------------------------------------------------
\* Text helpers.

RECURSIVE Join(_)
\* Result()["text"]: the words joined by single spaces.
Join(ws) ==
  IF ws = <<>> THEN <<>>
  ELSE IF Len(ws) = 1 THEN ws
  ELSE <<Head(ws), SP>> \o Join(Tail(ws))

\* text is an initial part of longer.
IsPrefix(text, longer) ==
  /\ Len(text) <= Len(longer)
  /\ SubSeq(longer, 1, Len(text)) = text

\* The words of a text.
WordsOf(text) == {text[i] : i \in {j \in 1..Len(text) : text[j] # SP}}

----------------------------------------------------------------------------
\* The recognizer.

\* vosk.KaldiRecognizer(model, samplerate): a recognizer with nothing buffered.
StaleRecognizer(ns) == IF ns > 1 THEN rec[ns - 1] ELSE <<>>
KaldiRecognizer(ns) == <<>>

\* rec.AcceptWaveform(chunk): true when the chunk completes an endpoint.
AcceptWaveform(r, chunk) == chunk.word = 0

\* rec.Result(): the text of the completed utterance.
Result(r) == Join(r)

\* The recognizer after AcceptWaveform(chunk).
AfterAccept(r, chunk) ==
  IF chunk.word = 0 THEN <<>> ELSE Append(r, <<chunk.sess, chunk.word>>)

----------------------------------------------------------------------------
\* The state of the panel after the first run of the script (no button
\* clicked).  Without a model the run ended at line 13.

PanelInit ==
  /\ model \in BOOLEAN
  /\ is_listening = FALSE
  /\ transcript = <<>>
  /\ start_disabled = FALSE
  /\ stop_disabled = TRUE
  /\ runNs = 0
  /\ inLoop = FALSE
  /\ nsess = 0
  /\ keep_listening = [n \in Namespaces |-> FALSE]
  /\ final_text = [n \in Namespaces |-> <<>>]
  /\ q = [n \in Namespaces |-> <<>>]
  /\ rec = [n \in Namespaces |-> <<>>]
  /\ pc = [s \in Sessions |-> "idle"]
  /\ data = [s \in Sessions |-> NoChunk]
  /\ newtext = [s \in Sessions |-> <<>>]
  /\ stream = [s \in Sessions |-> "none"]
  /\ nclose = [s \in Sessions |-> 0]
  /\ nput = [s \in Sessions |-> 0]
  /\ nword = 0
  /\ lastFed = [s \in Sessions |-> 0]
  /\ stopReq = [s \in Sessions |-> FALSE]
  /\ lateGet = [s \in Sessions |-> FALSE]
  /\ finalized = [s \in Sessions |-> <<>>]
  /\ clears = 0

\* The session the panel shows as Active: the latest started, while listening.
Active(s) == is_listening /\ s = nsess

\* The panel is stopped on its latest session.
Stopped == nsess >= 1 /\ ~is_listening /\ stopReq[nsess]

----------------------------------------------------------------------------
\* Runs of the script, one per click.

\* Line 23: queue.Queue(), the empty queue of the run's namespace ns.
StaleQueue(ns) == IF ns > 1 THEN q[ns - 1] ELSE <<>>
Queue(ns) == <<>>

\* The namespace of a run that starts no thread, latest being the last run
\* that started one: globals of its own, which nothing else refers to.
ThreadNamespace(latest) == latest
RunNamespace(latest) == 0

\* Lines 13-23 in the run's namespace ns, then what the run's handler assigns:
\* the globals keep_listening and final_text of namespace ns.  When line 13
\* raises the run ends there: no recognizer is created, no handler runs.
RunGlobals(ns, keep) ==
  /\ model
  /\ keep_listening' = [keep_listening EXCEPT ![ns] = keep]
  /\ final_text' = [final_text EXCEPT ![ns] = <<>>]
  /\ q' = [q EXCEPT ![ns] = Queue(ns)]
  /\ rec' = [rec EXCEPT ![ns] = KaldiRecognizer(ns)]

\* Lines 157-168: the run stays in the render loop when is_listening and the
\* keep_listening of its own namespace are both true.
EntersLoop(listening, keep) == listening /\ keep

\* Where the run of a Start click goes on after its handler (lines 137-141):
\* to the render loop, or, another click being pending, it is ended inside
\* st.success (line 142) or the st.button of Stop (line 145), before that
\* button is rendered, or inside the st.button of Clear (line 151).
Ends == {"loop", "success", "clear"}

\* The Stop button after a Start run that went as far as end: line 145
\* renders it enabled, before it is as the run before rendered it.
StopRendered(end, before) == IF end = "success" THEN before ELSE FALSE

\* A run with the Start button clicked (lines 13-23, 136-142, 145, 151,
\* 157-165).
StartClicked ==
  /\ unit = "Hindi_STT"
  /\ ~start_disabled
  /\ nsess < MaxSessions
  /\ LET ns == nsess + 1 IN
     /\ nsess' = ns
     /\ runNs' = ns
     /\ RunGlobals(ns, TRUE)
     /\ start_disabled' = is_listening
     /\ is_listening' = TRUE
     /\ transcript' = <<>>
     /\ pc' = [pc EXCEPT ![ns] = "enter"]
     /\ \E end \in Ends :
          /\ stop_disabled' = StopRendered(end, stop_disabled)
          /\ inLoop' = (end = "loop" /\ EntersLoop(TRUE, TRUE))
     /\ finalized' = [finalized EXCEPT ![ns] = <<>>]
  /\ clears' = 0
  /\ UNCHANGED <<data, newtext, stream, nclose, nput, nword, lastFed, stopReq, lateGet>>
  /\ UNCHANGED dashVars

\* The transcript a Stop click leaves in st.session_state: lines 146-148 do
\* not assign it.
StopDiscards(text) == <<>>
StoppedTranscript(text) == text

\* A run with the Stop button clicked (lines 13-23, 136, 145-148, 157, 166-168).
StopClicked ==
  /\ unit = "Hindi_STT"
  /\ ~stop_disabled
  /\ runNs' = RunNamespace(nsess)
  /\ RunGlobals(RunNamespace(nsess), FALSE)
  /\ start_disabled' = is_listening
  /\ stop_disabled' = ~is_listening
  /\ is_listening' = FALSE
  /\ inLoop' = EntersLoop(FALSE, FALSE)
  /\ stopReq' = [s \in Sessions |-> stopReq[s] \/ (is_listening /\ s = nsess)]
  /\ transcript' = StoppedTranscript(transcript)
  /\ UNCHANGED <<nsess, pc, data, newtext, stream, nclose, nput, nword,
                 lastFed, lateGet, finalized, clears>>
  /\ UNCHANGED dashVars

\* The transcript a Clear click leaves in st.session_state (line 152).
ClearedTranscript(text) == <<>>

\* A run with the Clear button clicked (lines 13-23, 136, 145, 151-154, 157-168).
ClearClicked ==
  /\ unit = "Hindi_STT"
  /\ runNs' = RunNamespace(nsess)
  /\ RunGlobals(RunNamespace(nsess), FALSE)
  /\ start_disabled' = is_listening
  /\ stop_disabled' = ~is_listening
  /\ transcript' = ClearedTranscript(transcript)
  /\ inLoop' = EntersLoop(is_listening, FALSE)
  /\ finalized' = [s \in Sessions |-> IF s = nsess THEN <<>> ELSE finalized[s]]
  /\ clears' = IF Stopped /\ transcript # <<>> THEN 1
               ELSE IF clears >= 1 THEN 2 ELSE 0
  /\ UNCHANGED <<is_listening, nsess, pc, data, newtext, stream, nclose, nput, nword,
                 lastFed, stopReq, lateGet>>
  /\ UNCHANGED dashVars

\* One iteration of the render loop (lines 159-165) of the run in progress.
Poll ==
  /\ unit = "Hindi_STT"
  /\ inLoop
  /\ IF keep_listening[runNs]
       THEN transcript' = final_text[runNs] /\ inLoop' = TRUE
       ELSE transcript' = transcript /\ inLoop' = FALSE
  /\ UNCHANGED <<is_listening, start_disabled, stop_disabled, runNs, nsess,
                 keep_listening, final_text, q, rec, pc, data, newtext, stream, nclose,
                 nput, nword, lastFed, stopReq, lateGet, finalized, clears>>
  /\ UNCHANGED dashVars

----------------------------------------------------------------------------
\* The capture callback of the session's stream (lines 26-29), called by the
\* audio library for every captured chunk while the stream is open.

\* q.put(item) on the contents of a queue.Queue.
QueuePut(queue, item) == Append(queue, item)

\* q.get() on the contents of a non-empty queue.Queue: the item returned.
StackGet(queue) == queue[Len(queue)]
QueueGet(queue) == Head(queue)

\* The contents left after q.get().
QueueRest(queue) == Tail(queue)

\* The chunks the device may capture next: silence, or the next spoken word.
Captured(s) ==
  {[sess |-> s, seq |-> (nput[s] + 1) % SeqMod, word |-> w] :
     w \in {0} \cup (IF nword < MaxWords THEN {nword + 1} ELSE {})}

\* Lines 26-29, called by the stream with a captured chunk.  With status set
\* (an input overflow, say) line 28 raises NameError, sys not being imported:
\* the chunk is not enqueued and nothing else is touched.  Otherwise q.put
\* only.  What the audio library does with a stream whose callback raised
\* takes no state: a stream that delivers nothing more is a behaviour of the
\* specification as it is, the callback being under no fairness there.
callbackRecognizes(s) ==
  /\ unit = "Hindi_STT"
  /\ stream[s] = "open"
  /\ Len(q[s]) < MaxQueue
  /\ \E status \in BOOLEAN :
       IF status
         THEN UNCHANGED <<q, rec, nput, nword>>
         ELSE /\ \E chunk \in Captured(s) :
                   /\ q' = [q EXCEPT ![s] = QueuePut(q[s], chunk)]
                   /\ rec' = [rec EXCEPT ![s] = AfterAccept(rec[s], chunk)]
                   /\ nput' = [nput EXCEPT ![s] = chunk.seq]
                   /\ nword' = IF chunk.word = 0 THEN nword ELSE chunk.word
  /\ UNCHANGED <<uiVars, keep_listening, final_text, pc, data, newtext, stream, nclose,
                 lastFed, stopReq, lateGet, finalized, clears>>
  /\ UNCHANGED dashVars
callback(s) ==
  /\ unit = "Hindi_STT"
  /\ stream[s] = "open"
  /\ Len(q[s]) < MaxQueue
  /\ \E status \in BOOLEAN :
       IF status
         THEN UNCHANGED <<q, rec, nput, nword>>
         ELSE /\ \E chunk \in Captured(s) :
                   /\ q' = [q EXCEPT ![s] = QueuePut(q[s], chunk)]
                   /\ UNCHANGED rec
                   /\ nput' = [nput EXCEPT ![s] = chunk.seq]
                   /\ nword' = IF chunk.word = 0 THEN nword ELSE chunk.word
  /\ UNCHANGED <<uiVars, keep_listening, final_text, pc, data, newtext, stream, nclose,
                 lastFed, stopReq, lateGet, finalized, clears>>
  /\ UNCHANGED dashVars

----------------------------------------------------------------------------
\* The thread running listen_audio (lines 32-42) in the namespace of session s.

\* Leaving the with block of line 34, normally or by an exception: the
\* stream's __exit__ closes it.
LeakOnRaise(raised) == IF raised THEN "open" ELSE "closed"
WithExit(raised) == "closed"

\* Line 34: sd.InputStream(...) opens the stream of the session.
EnterWith(s) ==
  /\ unit = "Hindi_STT"
  /\ pc[s] = "enter"
  /\ stream' = [stream EXCEPT ![s] = "open"]
  /\ pc' = [pc EXCEPT ![s] = "while"]
  /\ UNCHANGED <<uiVars, keep_listening, final_text, q, rec, data, newtext, nclose,
                 nput, nword, lastFed, stopReq, lateGet, finalized, clears>>
  /\ UNCHANGED dashVars

\* Line 35: the loop condition reads keep_listening of the thread's namespace.
While(s) ==
  /\ unit = "Hindi_STT"
  /\ pc[s] = "while"
  /\ IF keep_listening[s]
       THEN /\ pc' = [pc EXCEPT ![s] = "get"]
            /\ UNCHANGED <<stream, nclose>>
       ELSE /\ pc' = [pc EXCEPT ![s] = "done"]
            /\ stream' = [stream EXCEPT ![s] = WithExit(FALSE)]
            /\ nclose' = [nclose EXCEPT ![s] = @ + 1]
  /\ UNCHANGED <<uiVars, keep_listening, final_text, q, rec, data, newtext, nput,
                 nword, lastFed, stopReq, lateGet, finalized, clears>>
  /\ UNCHANGED dashVars

\* Line 36: data = q.get(), blocking while the queue is empty.
Get(s) ==
  /\ unit = "Hindi_STT"
  /\ pc[s] = "get"
  /\ q[s] # <<>>
  /\ data' = [data EXCEPT ![s] = QueueGet(q[s])]
  /\ q' = [q EXCEPT ![s] = QueueRest(q[s])]
  /\ lateGet' = [lateGet EXCEPT ![s] = stopReq[s]]
  /\ pc' = [pc EXCEPT ![s] = "feed"]
  /\ UNCHANGED <<uiVars, keep_listening, final_text, rec, newtext, stream,
                 nclose, nput, nword, lastFed, stopReq, finalized, clears>>
  /\ UNCHANGED dashVars

\* Lines 38-40: the text appended to final_text for an endpoint result.
Appended(text) == IF text # <<>> THEN text \o <<SP>> ELSE <<>>

\* Lines 37-40: rec.AcceptWaveform(data), which may raise and is not in a try
\* block (the exception leaves the with block and ends the thread), then for
\* an endpoint with text the right-hand side of line 40: final_text is read
\* and the value to store is computed.
Feed(s) ==
  /\ unit = "Hindi_STT"
  /\ pc[s] = "feed"
  /\ lastFed' = [lastFed EXCEPT ![s] = data[s].seq]
  /\ \E raised \in BOOLEAN :
       IF raised
         THEN /\ pc' = [pc EXCEPT ![s] = "done"]
              /\ stream' = [stream EXCEPT ![s] = WithExit(TRUE)]
              /\ nclose' = [nclose EXCEPT ![s] = @ + 1]
              /\ UNCHANGED <<rec, newtext, finalized>>
         ELSE /\ rec' = [rec EXCEPT ![s] = AfterAccept(rec[s], data[s])]
              /\ LET text == IF AcceptWaveform(rec[s], data[s])
                               THEN Result(rec[s]) ELSE <<>>
                 IN /\ pc' = [pc EXCEPT ![s] =
                                IF text # <<>> THEN "store" ELSE "while"]
                    /\ newtext' = [newtext EXCEPT ![s] =
                                     IF text # <<>>
                                       THEN final_text[s] \o Appended(text)
                                       ELSE <<>>]
                    /\ finalized' =
                         [finalized EXCEPT ![s] =
                            IF Active(s) THEN @ \o Appended(text) ELSE @]
              /\ UNCHANGED <<stream, nclose>>
  /\ data' = [data EXCEPT ![s] = NoChunk]
  /\ lateGet' = [lateGet EXCEPT ![s] = FALSE]
  /\ UNCHANGED <<uiVars, keep_listening, final_text, q, nput, nword, stopReq,
                 clears>>
  /\ UNCHANGED dashVars

\* Line 40, the assignment: the computed value is stored in final_text.
Store(s) ==
  /\ unit = "Hindi_STT"
  /\ pc[s] = "store"
  /\ final_text' = [final_text EXCEPT ![s] = newtext[s]]
  /\ newtext' = [newtext EXCEPT ![s] = <<>>]
  /\ pc' = [pc EXCEPT ![s] = "while"]
  /\ UNCHANGED <<uiVars, keep_listening, q, rec, data, stream, nclose, nput,
                 nword, lastFed, stopReq, lateGet, finalized, clears>>
  /\ UNCHANGED dashVars

listen_audio(s) == EnterWith(s) \/ While(s) \/ Get(s) \/ Feed(s) \/ Store(s)

\* The steps of the panel.
PanelNext ==
  \/ StartClicked
  \/ StopClicked
  \/ ClearClicked
  \/ Poll
  \/ \E s \in Sessions : callback(s)
  \/ \E s \in Sessions : listen_audio(s)

----------------------------------------------------------------------------
\* LiveVoskRecognizer (Testing_STT.py lines 30-43).

\* __init__ (lines 31-35): a recognizer with nothing buffered and an empty
\* transcript.
LiveVoskRecognizer ==
  /\ lv_rec = <<>>
  /\ lv_transcript = <<>>
  /\ lv_calls = 0

\* rec.PartialResult()["partial"]: the words buffered since the last endpoint.
PartialResult(r) == Join(r)

\* The chunks a caller passes to process: silence, or the next spoken word.
AudioBytes ==
  {[sess |-> 0, seq |-> lv_calls + 1, word |-> w] : w \in {0, lv_calls + 1}}

\* Lines 40 and 116: transcript += result.get("text", "") + " ".
FinalizeReplaces(text, result) == result \o <<SP>>
Finalize(text, result) == text \o result \o <<SP>>

\* Lines 41-42: the partial result is parsed into a local and dropped.
AppendPartial(text, partial) == text \o partial
DropPartial(text, partial) == text

\* process(audio_bytes) (lines 37-43); AcceptWaveform may raise, process does
\* not catch.
process(audio_bytes) ==
  /\ unit = "LiveVoskRecognizer"
  /\ lv_calls < MaxCalls
  /\ lv_calls' = lv_calls + 1
  /\ \E raised \in BOOLEAN :
       IF raised
         THEN UNCHANGED <<lv_rec, lv_transcript>>
         ELSE /\ lv_rec' = AfterAccept(lv_rec, audio_bytes)
              /\ lv_transcript' =
                   IF AcceptWaveform(lv_rec, audio_bytes)
                     THEN Finalize(lv_transcript, Result(lv_rec))
                     ELSE DropPartial(lv_transcript, PartialResult(lv_rec'))
  /\ UNCHANGED <<liveVars, envVars, webVars, fileVars>>

----------------------------------------------------------------------------
\* The browser speech component (Testing_STT.py lines 287-394).

\* The text finalSpan shows while there is no transcript (lines 287, 391).
Placeholder == <<"Your speech will appear here...">>

\* The text of line 365, without its leading symbol.
Unsupported ==
  <<"Speech recognition not supported in this browser. Please use Chrome or Edge.">>

\* What finalSpan shows when the component has loaded (lines 287, 311,
\* 364-365), st.session_state.web_transcript being "" (line 156; line 434
\* never assigns it, components.html returning no dict).
LoadedSpan(supported) == IF supported THEN Placeholder ELSE Unsupported

\* Lines 287-288, 305, 311-369: the component as loaded, in a browser with or
\* without SpeechRecognition.
WebInit ==
  /\ recognition \in BOOLEAN
  /\ finalSpan = LoadedSpan(recognition)
  /\ interimSpan = <<>>
  /\ finalTranscript = <<>>
  /\ nevents = 0
  /\ webCleared = 0

\* The component in a browser with SpeechRecognition.
WebIdle == WebInit /\ recognition

\* The recognition events the browser delivers: event.results from
\* event.resultIndex on, one or two results, each final or interim.  The
\* transcript of a result is one token naming its kind, its event and its
\* index.
Events == {<<f>> : f \in BOOLEAN} \cup {<<f, g>> : f, g \in BOOLEAN}

transcriptPart(event, i) ==
  <<IF event[i] THEN "final" ELSE "interim", nevents + 1, i>>

RECURSIVE FinalParts(_, _)
\* Lines 338-341: what the loop adds to finalTranscript from result i on.
FinalParts(event, i) ==
  IF i > Len(event) THEN <<>>
  ELSE (IF event[i] THEN <<transcriptPart(event, i), SP>> ELSE <<>>)
         \o FinalParts(event, i + 1)

RECURSIVE InterimParts(_, _)
\* Lines 337, 342-343: the local interim after the loop, from result i on.
InterimParts(event, i) ==
  IF i > Len(event) THEN <<>>
  ELSE (IF event[i] THEN <<>> ELSE <<transcriptPart(event, i)>>)
         \o InterimParts(event, i + 1)

\* Line 347: interimSpan.innerText is assigned the local interim.
InterimShown(shown, interim) == interim

\* recognition.onresult (lines 336-347).
onresult(event) ==
  /\ unit = "webspeech"
  /\ recognition
  /\ nevents < MaxEvents
  /\ nevents' = nevents + 1
  /\ finalTranscript' = finalTranscript \o FinalParts(event, 1)
  /\ finalSpan' = finalTranscript'
  /\ interimSpan' = InterimShown(interimSpan, InterimParts(event, 1))
  /\ webCleared' = 0
  /\ UNCHANGED recognition
  /\ UNCHANGED <<liveVars, envVars, lvVars, fileVars>>

\* startRecognition (lines 371-379): nothing when recognition is not set.
startRecognition ==
  /\ unit = "webspeech"
  /\ IF recognition
       THEN /\ IF finalSpan = Placeholder
                 THEN finalTranscript' = <<>> /\ finalSpan' = <<>>
                 ELSE UNCHANGED <<finalTranscript, finalSpan>>
            /\ webCleared' = 0
       ELSE UNCHANGED <<finalTranscript, finalSpan, webCleared>>
  /\ UNCHANGED <<interimSpan, nevents, recognition>>
  /\ UNCHANGED <<liveVars, envVars, lvVars, fileVars>>

\* clearTranscript (lines 389-394).
clearTranscript ==
  /\ unit = "webspeech"
  /\ finalTranscript' = <<>>
  /\ finalSpan' = Placeholder
  /\ interimSpan' = <<>>
  /\ webCleared' = IF finalTranscript # <<>> THEN 1
                   ELSE IF webCleared >= 1 THEN 2 ELSE 0
  /\ UNCHANGED <<nevents, recognition>>
  /\ UNCHANGED <<liveVars, envVars, lvVars, fileVars>>

\* The language or the Continuous checkbox is changed (lines 238-246): the
\* HTML of lines 317-318 differs and the browser loads the component again.
Reload ==
  /\ unit = "webspeech"
  /\ finalTranscript' = <<>>
  /\ finalSpan' = LoadedSpan(recognition)
  /\ interimSpan' = <<>>
  /\ webCleared' = 0
  /\ UNCHANGED <<nevents, recognition>>
  /\ UNCHANGED <<liveVars, envVars, lvVars, fileVars>>

----------------------------------------------------------------------------
\* VoskSpeechRecognizer.transcribe_audio_file (Testing_STT.py lines 73-131)
\* and the upload tab that calls it (lines 465-492).

\* self.sample_rate (line 56) and chunk_size (line 111).
SampleRate == 16000
ChunkSize == 4000

\* What a chunk of a file holds: silence (an endpoint for the recognizer),
\* speech (one word), or bytes on which AcceptWaveform raises.
Kinds == {"silence", "speech", "bad"}

\* An uploaded file: whether its read() returns its bytes (or raises),
\* whether the wave module can open it (RIFF/WAVE, PCM),
\* whether librosa can decode it, its channel count, sample width in bytes
\* and frame rate, and the decoded audio: its number of samples and what
\* each chunk_size samples of it hold.
Audio(n, ks) ==
  [readable |-> TRUE, wav |-> TRUE, decodable |-> TRUE, channels |-> 1,
   sampwidth |-> 2, framerate |-> SampleRate, nframes |-> n, kinds |-> ks]

\* The uploads of the model: mono 16-bit 16 kHz WAV files of every content of
\* silence and speech whose length is a multiple of chunk_size (the empty
\* file included), files of speech that end in a bad chunk, files of speech
\* one sample longer than a multiple of chunk_size, WAV files of other
\* formats, files that are not WAV, and an upload that cannot be read.
Files ==
  UNION {{Audio(k * ChunkSize, ks) : ks \in [1..k -> {"silence", "speech"}]} :
           k \in 0..MaxChunks}
  \cup {Audio(k * ChunkSize, [i \in 1..k |-> IF i = k THEN "bad" ELSE "speech"]) :
          k \in 1..MaxChunks}
  \cup {Audio((k - 1) * ChunkSize + 1, [i \in 1..k |-> "speech"]) :
          k \in 1..MaxChunks}
  \cup {[readable |-> TRUE, wav |-> TRUE, decodable |-> TRUE, channels |-> c,
         sampwidth |-> w, framerate |-> r, nframes |-> 1,
         kinds |-> <<"speech">>] :
          c \in {1, 2}, w \in {1, 2}, r \in {8000, SampleRate}}
  \cup {[readable |-> TRUE, wav |-> FALSE, decodable |-> d, channels |-> 2,
         sampwidth |-> 2, framerate |-> 44100, nframes |-> 1,
         kinds |-> <<"speech">>] :
          d \in BOOLEAN}
  \cup {[Audio(ChunkSize, <<"speech">>) EXCEPT !.readable = FALSE]}

NoFile == Audio(0, <<>>)

\* The value of probe when no file is followed.
NoProbe == [readable |-> FALSE, wav |-> FALSE, decodable |-> FALSE,
            channels |-> 0, sampwidth |-> 0, framerate |-> 0, nframes |-> 0,
            kinds |-> <<>>]

\* The strings the function returns in place of a transcript.
ErrNoModel == <<<<"Error: Vosk model is not loaded.">>>>
ErrNotPcm16Mono ==
  <<<<"Error: Without 'librosa', only 16-bit mono PCM WAV files are supported.">>>>
ErrRate(hz) == <<<<"Error: Audio must be", SampleRate, "Hz. This file is", hz, "Hz.">>>>
ErrTranscription == <<<<"Error during transcription.">>>>

\* Lines 93-104: how loading the audio ends.  wave.open raises on a file that
\* is not PCM WAV, so getcomptype() is "NONE" whenever line 100 is reached.
Load(file) ==
  IF LIBROSA_AVAILABLE
    THEN IF file.decodable THEN "ok" ELSE "raise"
    ELSE IF ~file.wav THEN "raise"
    ELSE IF file.channels # 1 \/ file.sampwidth # 2 THEN "format"
    ELSE IF file.framerate # SampleRate THEN "rate"
    ELSE "ok"

\* audio_int16[i:i+chunk_size] of a buffer of n samples: the samples from lo
\* up to, not including, hi.
SliceUnclamped(i, n) == [lo |-> i, hi |-> i + ChunkSize]
Slice(i, n) ==
  [lo |-> IF i < n THEN i ELSE n,
   hi |-> IF i + ChunkSize < n THEN i + ChunkSize ELSE n]

\* rec.FinalResult(): the text of the words still buffered.
FinalResult(r) == Join(r)

RECURSIVE lstrip(_)
lstrip(text) ==
  IF text # <<>> /\ Head(text) = SP THEN lstrip(Tail(text)) ELSE text

RECURSIVE rstrip(_)
rstrip(text) ==
  IF text # <<>> /\ text[Len(text)] = SP
    THEN rstrip(SubSeq(text, 1, Len(text) - 1))
    ELSE text

\* str.strip()
strip(text) == rstrip(lstrip(text))

\* Line 107: the recognizer of a call, given the one the previous call left.
ReusedRecognizer(left) == left
NewRecognizer(left) == <<>>

\* The model directories typed in the sidebar (line 181): one that does not
\* exist, one that exists and from which vosk.Model raises, and a model.
Paths == {"absent", "broken", "model"}

\* os.path.exists(path)
ExistsAlways(path) == TRUE
exists(path) == path # "absent"

\* vosk.Model(path) returns a model (it raises otherwise).
Model(path) == path = "model"

\* load_model (lines 58-71): whether self.model is set when it returns, and
\* the value it returns.
ModelAfterLoad(path) == exists(path) /\ Model(path)

LoadReportsPath(path) == exists(path)
load_model(path) == exists(path) /\ Model(path)

\* The messages of lines 190, 195 and 197, without their leading symbol.
Loaded == "Model loaded successfully!"
LoadFailed == "Failed to load model."
PathNotFound == "Path not found. Please check the model path."

\* The Load Vosk Model button is clicked with path typed in (lines 183-197).
\* A recognizer is constructed with no model (lines 52-56) and kept only if
\* load_model returns True.  When vosk.Model raises, load_model calls st.error
\* (line 70) before it returns False: with another click pending Streamlit
\* ends the run inside that call, before the message is sent to the page:
\* line 194 is not reached and the run reports nothing.
LoadClicked(path) ==
  /\ unit = "VoskSpeechRecognizer"
  /\ f_pc = "idle"
  /\ IF exists(path)
       THEN IF load_model(path)
              THEN /\ vosk_recognizer' = "object"
                   /\ vosk_model' = ModelAfterLoad(path)
                   /\ model_loaded' = TRUE
                   /\ load_message' = Loaded
              ELSE /\ \E pending \in BOOLEAN :
                        IF pending
                          THEN /\ load_message' = ""
                               /\ UNCHANGED model_loaded
                          ELSE /\ load_message' = LoadFailed
                               /\ model_loaded' = FALSE
                   /\ UNCHANGED <<vosk_recognizer, vosk_model>>
       ELSE /\ load_message' = PathNotFound
            /\ UNCHANGED <<model_loaded, vosk_recognizer, vosk_model>>
  /\ UNCHANGED <<LIBROSA_AVAILABLE, vosk_transcript, f_pc, f_file, f_i, f_rec,
                 f_text, f_fed, f_segs, tmp_file, probe, memo, returned>>
  /\ UNCHANGED <<liveVars, envVars, lvVars, webVars>>

\* The state of the upload tab with nothing transcribed (lines 149-160): the
\* model is loaded or not; p is the file to follow.
FileStart(p) ==
  /\ LIBROSA_AVAILABLE \in BOOLEAN
  /\ model_loaded \in BOOLEAN
  /\ vosk_recognizer = IF model_loaded THEN "object" ELSE "None"
  /\ vosk_model = model_loaded
  /\ load_message = IF model_loaded THEN Loaded ELSE ""
  /\ vosk_transcript = <<>>
  /\ f_pc = "idle"
  /\ f_file = NoFile
  /\ f_i = 0
  /\ f_rec = <<>>
  /\ f_text = <<>>
  /\ f_fed = <<>>
  /\ f_segs = <<>>
  /\ tmp_file = "none"
  /\ probe = p
  /\ memo = [stage |-> 0, value |-> <<>>]
  /\ returned = TRUE

FileInit == FileStart(NoProbe)

\* The stages of the history memo: 0 no call on probe has returned, 1 one
\* has, 2 a call on another file has returned since, 3 a call on probe has
\* returned after that.
Noted(file, value) ==
  IF file = probe
    THEN IF memo.stage = 0 THEN [stage |-> 1, value |-> value]
         ELSE IF memo.stage = 2 THEN [memo EXCEPT !.stage = 3]
         ELSE memo
    ELSE IF memo.stage = 1 THEN [memo EXCEPT !.stage = 2] ELSE memo

\* The finally clause (lines 128-131) on the temporary file in the given
\* state: it is removed when tmp_file_path was assigned (path).
Finally(state, path) == IF path /\ state = "exists" THEN "removed" ELSE state

\* The call is over, the temporary file being in the given state when the
\* try statement is left: its locals are gone.
Exit(state, path) ==
  /\ tmp_file' = Finally(state, path)
  /\ f_pc' = "idle"
  /\ f_file' = NoFile
  /\ f_i' = 0
  /\ f_text' = <<>>
  /\ f_fed' = <<>>

\* transcribe_audio_file returns value and line 480 stores it in
\* st.session_state.vosk_transcript.
Returns(value, state, path) ==
  /\ vosk_transcript' = value
  /\ memo' = Noted(f_file, value)
  /\ returned' = TRUE
  /\ Exit(state, path)

\* The except clause (lines 124-126): st.error, then the return of the error
\* string.  With another click pending Streamlit ends the run inside st.error
\* (by an exception that is no Exception): only the finally clause runs,
\* nothing is returned and line 480 is not reached.
Except(state, path) ==
  \E pending \in BOOLEAN :
    IF pending
      THEN /\ returned' = FALSE
           /\ Exit(state, path)
           /\ UNCHANGED <<vosk_transcript, memo>>
      ELSE Returns(ErrTranscription, state, path)

\* The Transcribe File button is clicked on an uploaded file (lines 469-479):
\* transcribe_audio_file is called on st.session_state.vosk_recognizer; on
\* None line 479 raises AttributeError and the run ends there.
TranscribeClicked(file) ==
  /\ unit = "VoskSpeechRecognizer"
  /\ model_loaded
  /\ f_pc = "idle"
  /\ IF vosk_recognizer = "None"
       THEN UNCHANGED <<f_pc, f_file, tmp_file, f_segs, returned>>
       ELSE /\ f_pc' = "open"
            /\ f_file' = file
            /\ tmp_file' = "none"
            /\ f_segs' = <<>>
            /\ returned' = TRUE
  /\ UNCHANGED <<LIBROSA_AVAILABLE, loadVars, vosk_transcript,
                 f_i, f_rec, f_text, f_fed, probe, memo>>
  /\ UNCHANGED <<liveVars, envVars, lvVars, webVars>>

\* Lines 78-111: the model check (its return is outside the try statement),
\* the temporary file, loading the audio and creating the recognizer.
\* NamedTemporaryFile(delete=False) creates the file (line 87); when
\* audio_file.read() raises (line 88) tmp_file_path is still None (line 89 is
\* not reached) and the finally clause removes nothing.
Open ==
  /\ unit = "VoskSpeechRecognizer"
  /\ f_pc = "open"
  /\ IF ~vosk_model
       THEN Returns(ErrNoModel, "none", FALSE) /\ UNCHANGED <<f_rec, f_segs>>
       ELSE IF ~f_file.readable
       THEN Except("exists", FALSE) /\ UNCHANGED <<f_rec, f_segs>>
       ELSE LET how == Load(f_file) IN
            IF how = "ok"
              THEN /\ f_pc' = "loop"
                   /\ tmp_file' = "exists"
                   /\ f_rec' = NewRecognizer(f_rec)
                   /\ f_text' = <<>>
                   /\ f_i' = 0
                   /\ UNCHANGED <<vosk_transcript, f_file, f_fed, f_segs, memo,
                                  returned>>
            ELSE IF how = "raise"
              THEN Except("exists", TRUE) /\ UNCHANGED <<f_rec, f_segs>>
              ELSE /\ Returns(IF how = "format" THEN ErrNotPcm16Mono
                              ELSE ErrRate(f_file.framerate), "exists", TRUE)
                   /\ UNCHANGED <<f_rec, f_segs>>
  /\ UNCHANGED <<LIBROSA_AVAILABLE, loadVars, probe>>
  /\ UNCHANGED <<liveVars, envVars, lvVars, webVars>>

\* One iteration of the loop of lines 112-116; AcceptWaveform raises on a bad
\* chunk and the except clause is entered.
Loop ==
  /\ unit = "VoskSpeechRecognizer"
  /\ f_pc = "loop"
  /\ f_i * ChunkSize < f_file.nframes
  /\ LET kind == f_file.kinds[f_i + 1]
         chunk == [sess |-> 0, seq |-> f_i + 1,
                   word |-> IF kind = "speech" THEN f_i + 1 ELSE 0]
     IN IF kind = "bad"
          THEN /\ Except(tmp_file, TRUE)
               /\ UNCHANGED <<f_rec, f_segs>>
          ELSE /\ f_i' = f_i + 1
               /\ f_fed' = Append(f_fed, Slice(f_i * ChunkSize, f_file.nframes))
               /\ f_rec' = AfterAccept(f_rec, chunk)
               /\ IF AcceptWaveform(f_rec, chunk)
                    THEN /\ f_text' = Finalize(f_text, Result(f_rec))
                         /\ f_segs' = Append(f_segs, Result(f_rec))
                    ELSE UNCHANGED <<f_text, f_segs>>
               /\ UNCHANGED <<vosk_transcript, f_pc, f_file, tmp_file, memo,
                              returned>>
  /\ UNCHANGED <<LIBROSA_AVAILABLE, loadVars, probe>>
  /\ UNCHANGED <<liveVars, envVars, lvVars, webVars>>

\* Lines 119-122: after the last chunk, the final result is added and the
\* stripped transcript is returned.
Flush ==
  /\ unit = "VoskSpeechRecognizer"
  /\ f_pc = "loop"
  /\ f_i * ChunkSize >= f_file.nframes
  /\ Returns(strip(f_text \o FinalResult(f_rec)), tmp_file, TRUE)
  /\ f_rec' = <<>>
  /\ f_segs' = Append(f_segs, FinalResult(f_rec))
  /\ UNCHANGED <<LIBROSA_AVAILABLE, loadVars, probe>>
  /\ UNCHANGED <<liveVars, envVars, lvVars, webVars>>

FileNext ==
  \/ \E file \in Files : TranscribeClicked(file)
  \/ Open
  \/ Loop
  \/ Flush

LoadNext == \E path \in Paths : LoadClicked(path)

DashboardNext ==
  \/ \E audio_bytes \in AudioBytes : process(audio_bytes)
  \/ \E event \in Events : onresult(event)
  \/ startRecognition
  \/ clearTranscript
  \/ Reload
  \/ FileNext
  \/ LoadNext

----------------------------------------------------------------------------

Units == {"Hindi_STT", "LiveVoskRecognizer", "webspeech", "VoskSpeechRecognizer"}

\* One unit is exercised from its initial state; the variables of the others
\* hold their initial values, the upload tab with no model loaded.
FileIdle ==
  /\ FileInit
  /\ ~LIBROSA_AVAILABLE
  /\ ~model_loaded

\* The panel with nothing clicked, its model in place.
PanelIdle == PanelInit /\ model

InitOf(u) ==
  /\ unit = u
  /\ IF u = "Hindi_STT" THEN PanelInit ELSE PanelIdle
  /\ LiveVoskRecognizer
  /\ IF u = "webspeech" THEN WebInit ELSE WebIdle
  /\ IF u = "VoskSpeechRecognizer" THEN FileInit ELSE FileIdle

Init == \E u \in Units : InitOf(u)

FileUnitInit == InitOf("VoskSpeechRecognizer")

Next == PanelNext \/ DashboardNext

\* The file unit alone.
FileSpec == FileUnitInit /\ [][FileNext]_vars

\* The file unit alone, the calls on one file being followed.
ReplayInit ==
  /\ unit = "VoskSpeechRecognizer"
  /\ PanelIdle
  /\ LiveVoskRecognizer
  /\ WebIdle
  /\ \E p \in Files : FileStart(p)

ReplaySpec == ReplayInit /\ [][FileNext]_vars

\* The file unit alone from the start of the session, no model loaded yet
\* (lines 149-152), with the Load Vosk Model button.
LoadInit == FileUnitInit /\ ~model_loaded

LoadSpec == LoadInit /\ [][LoadNext \/ FileNext]_vars

Spec == Init /\ [][Next]_vars

\* The scheduler runs every thread that can take a step, and the audio
\* library keeps calling the callback of an open stream.
FairSpec ==
  /\ Spec
  /\ \A s \in Sessions : WF_vars(listen_audio(s)) /\ WF_vars(callback(s))

\* The scheduler runs every thread that can take a step; nothing is assumed
\* of the capture device.
ConsumerFairSpec == Spec /\ \A s \in Sessions : WF_vars(listen_audio(s))

----------------------------------------------------------------------------
\* Vocabulary of the claims.

\* The listen_audio thread of session s has started and not ended.
Running(s) == pc[s] \in {"enter", "while", "get", "feed", "store"}

\* The words the recognizer of namespace n holds without having finalized them.
Pending(n) == {rec[n][i] : i \in 1..Len(rec[n])}

----------------------------------------------------------------------------
\* C1: the transcript displayed after Stop is the concatenation, in order, of
\* every text finalized during the session, each once and each followed by one
\* separator.
C1_DisplayedIsAllFinalized == Stopped => transcript = finalized[nsess]

\* C2: a Stop requested while the recognizer holds audio that reached no
\* endpoint appends the text of that audio to the transcript.
C2_StopFlushesPartial ==
  [][(is_listening /\ ~is_listening')
       => Pending(nsess) \subseteq
            (WordsOf(final_text'[nsess]) \cup WordsOf(transcript'))]_vars

\* C3: a chunk dequeued after Stop was requested is never passed to
\* rec.AcceptWaveform.
C3_NoFeedAfterStop ==
  [][\A s \in Sessions : (pc[s] = "feed" /\ pc'[s] # "feed") => ~lateGet[s]]_vars

\* C4: whatever a session appends to its transcript comes from audio captured
\* and fed in that same session; nothing a recognizer buffered in one session
\* reaches another session's text.
C4_FreshRecognizerPerSession ==
  /\ \A s \in Sessions :
       \A w \in WordsOf(final_text[s]) \cup Pending(s) : w[1] = s
  /\ \A w \in WordsOf(transcript) : w[1] = nsess

\* C4 witness: a second session has appended text while the recognizer of the
\* first, stopped, session still holds audio it never finalized.
C4_Witness ==
  /\ nsess = 2
  /\ stopReq[1]
  /\ Pending(1) # {}
  /\ final_text[2] # <<>>

\* C5: the chunk passed to rec.AcceptWaveform is a chunk this session's
\* callback enqueued, and it is the one enqueued right after the chunk fed
\* before it: no gap, no duplicate, no reordering.
C5_FedInPutOrder ==
  \A s \in Sessions :
    pc[s] = "feed" =>
      /\ data[s].sess = s
      /\ data[s].seq = (lastFed[s] + 1) % SeqMod

\* C5 witness: a chunk is about to be fed after an earlier one while a later
\* one waits in the queue, after Stop was clicked.
C5_Witness ==
  \E s \in Sessions :
    /\ pc[s] = "feed"
    /\ lastFed[s] # 0
    /\ q[s] # <<>>
    /\ stopReq[s]

\* C6: a session started after the previous one was stopped never has its
\* consumer thread or its input stream alive together with the previous
\* session's.
C6_OneConsumerOneStream ==
  \A s, t \in Sessions :
    (s < t /\ t <= nsess /\ stopReq[s]) =>
      /\ ~(Running(s) /\ Running(t))
      /\ ~(stream[s] = "open" /\ stream[t] = "open")

\* C7: once Stop has been requested for a session, its consumer loop
\* eventually exits and its stream is closed (the producer keeps delivering).
C7_StopLeadsToExit ==
  \A s \in Sessions : stopReq[s] ~> (pc[s] = "done" /\ stream[s] = "closed")

\* C8: after Stop has been requested, a wait of the consumer for the next chunk
\* ends even if the producer delivers nothing more.
C8_WaitEndsAfterStop ==
  \A s \in Sessions : (stopReq[s] /\ pc[s] = "get") ~> (pc[s] # "get")

\* C9: whenever listen_audio has left its loop the stream it opened is closed,
\* a stream is open only while its thread is in the with block, and no stream
\* is closed twice.
C9_StreamClosedOnce ==
  \A s \in Sessions :
    /\ nclose[s] <= 1
    /\ pc[s] = "done" => (stream[s] = "closed" /\ nclose[s] = 1)
    /\ stream[s] = "open" => pc[s] \in {"while", "get", "feed", "store"}

\* C9 witness: a consumer loop has ended by an exception and its stream was
\* closed once.
C9_Witness ==
  \E s \in Sessions : pc[s] = "done" /\ stream[s] = "closed" /\ nclose[s] = 1

\* C10: while a session is Active no step starts another one: no second
\* thread, no second stream, no reset of the running session's transcript.
C10_StartWhileActiveRejected == [][is_listening => nsess' = nsess]_vars

----------------------------------------------------------------------------
\* C11: Clear on a stopped session empties the transcript buffer whatever it
\* held (the final_text of the stopped session and the displayed transcript;
\* in the browser finalTranscript and both spans, the placeholder standing for
\* an empty display), the buffer stays empty until a new session is started,
\* and a second Clear changes nothing.
C11_ClearIdempotent ==
  [][/\ clears' >= 1 =>
          /\ transcript' = <<>>
          /\ final_text'[nsess'] = <<>>
          /\ ~is_listening'
     /\ (ClearClicked /\ clears >= 1) =>
          UNCHANGED <<uiVars, keep_listening, final_text, q, rec>>
     /\ webCleared' >= 1 =>
          /\ finalTranscript' = <<>>
          /\ finalSpan' = Placeholder
          /\ interimSpan' = <<>>
     /\ (clearTranscript /\ webCleared >= 1) =>
          UNCHANGED <<finalTranscript, finalSpan, interimSpan>>]_vars

----------------------------------------------------------------------------
\* C12 as stated: Stop leaves the transcript buffer unchanged (the displayed
\* transcript and the final_text of the stopped session), and the transcript
\* of a stopped session keeps its value until a Clear click.
C12_KeptUntilClear ==
  [][/\ StopClicked =>
          /\ transcript' = transcript
          /\ \A s \in Sessions : final_text'[s] = final_text[s]
     /\ (Stopped /\ ~ClearClicked) => transcript' = transcript]_vars

\* C12, amended: Stop leaves the transcript buffer unchanged, and the
\* transcript of a stopped session keeps its value until a Clear click or the
\* next Start click replaces it with an empty buffer.
C12_KeptUntilClearOrStart ==
  [][/\ StopClicked =>
          /\ transcript' = transcript
          /\ \A s \in Sessions : final_text'[s] = final_text[s]
     /\ (Stopped /\ ~ClearClicked /\ ~StartClicked) =>
          transcript' = transcript
     /\ (Stopped /\ (ClearClicked \/ StartClicked)) => transcript' = <<>>]_vars

\* A stopped session displays a non-empty transcript while its thread has
\* gone on finalizing text since.
C12_Witness ==
  /\ Stopped
  /\ transcript # <<>>
  /\ WordsOf(final_text[nsess]) # WordsOf(transcript)

----------------------------------------------------------------------------
\* C13: the finalized transcript is append-only within a session: every step
\* of a started session leaves its final_text with the earlier value as a
\* prefix, every step that is not a Clear or Start click does so for the
\* displayed transcript, and every call of process for the transcript of a
\* LiveVoskRecognizer.
C13_AppendOnly ==
  [][/\ \A s \in Sessions :
          pc[s] # "idle" => IsPrefix(final_text[s], final_text'[s])
     /\ ~(ClearClicked \/ StartClicked) => IsPrefix(transcript, transcript')
     /\ IsPrefix(lv_transcript, lv_transcript')]_vars

\* A listening session displays finalized text and its final_text has grown
\* since that text was polled.
C13_Witness ==
  /\ is_listening
  /\ inLoop
  /\ WordsOf(transcript) # {}
  /\ Len(final_text[nsess]) > Len(transcript)

----------------------------------------------------------------------------
\* C14: partial text is never part of the permanent transcript: no word a
\* recognizer still holds as partial is in the final_text of its namespace or
\* in the displayed transcript, in the transcript of a LiveVoskRecognizer or
\* in the transcript local of a file transcription; finalTranscript in the
\* browser holds final results only, and interimSpan holds the interim
\* results of the latest event only.
C14_PartialNeverAppended ==
  /\ \A n \in Namespaces :
       /\ Pending(n) \cap WordsOf(final_text[n]) = {}
       /\ n = runNs => Pending(n) \cap WordsOf(transcript) = {}
  /\ WordsOf(lv_rec) \cap WordsOf(lv_transcript) = {}
  /\ f_pc = "loop" => WordsOf(f_rec) \cap WordsOf(f_text) = {}
  /\ \A part \in WordsOf(finalTranscript) : part[1] = "final"
  /\ \A part \in WordsOf(interimSpan) :
       part[1] = "interim" /\ part[2] = nevents

\* A LiveVoskRecognizer holds a partial word and a transcript with a
\* finalized word.
C14_Witness ==
  /\ lv_rec # <<>>
  /\ WordsOf(lv_transcript) # {}

----------------------------------------------------------------------------
\* C15: a feed that yields no new text leaves the transcript buffer unchanged:
\* a step after which a final_text, or the transcript of a
\* LiveVoskRecognizer, holds the same words as before leaves it as it was (so
\* a buffer without words is the empty string).
C15_NoTextNoChange ==
  [][/\ \A n \in Namespaces :
          WordsOf(final_text'[n]) = WordsOf(final_text[n])
            => final_text'[n] = final_text[n]
     /\ WordsOf(lv_transcript') = WordsOf(lv_transcript)
          => lv_transcript' = lv_transcript]_vars

----------------------------------------------------------------------------
\* The texts of segs that are not empty.
NonEmpty(segs) == SelectSeq(segs, LAMBDA text : text # <<>>)

RECURSIVE JoinTexts(_)
\* The texts of segs in order, one separator between consecutive texts.
JoinTexts(segs) ==
  IF segs = <<>> THEN <<>>
  ELSE IF Len(segs) = 1 THEN Head(segs)
  ELSE Head(segs) \o <<SP>> \o JoinTexts(Tail(segs))

\* C16: the transcript a file transcription returns is the texts of the
\* endpoint results in chunk order followed by the text of the final flush,
\* each once, with exactly one separator between consecutive segments and
\* none at either end, also when some results have empty text.
C16_SegmentsSingleSeparated ==
  [][(f_pc = "loop" /\ f_i * ChunkSize >= f_file.nframes)
       => vosk_transcript' = JoinTexts(NonEmpty(f_segs'))]_vars

----------------------------------------------------------------------------
\* The loop of lines 112-116 has run to its end.
LoopDone == f_pc = "loop" /\ f_i * ChunkSize >= f_file.nframes

\* C17: the chunks fed from a file are a contiguous partition of its sample
\* buffer: each slice starts where the one before ended (the first at 0),
\* none is empty, every slice but the last has chunk_size samples and the
\* last at most as many, none reaches past the end, and when the loop is
\* done the slices cover the buffer (no slice at all for an empty buffer).
C17_ContiguousPartition ==
  /\ \A k \in 1..Len(f_fed) :
       /\ f_fed[k].lo = IF k = 1 THEN 0 ELSE f_fed[k - 1].hi
       /\ f_fed[k].lo < f_fed[k].hi
       /\ f_fed[k].hi <= f_file.nframes
       /\ f_fed[k].hi <= f_fed[k].lo + ChunkSize
       /\ k < Len(f_fed) => f_fed[k].hi = f_fed[k].lo + ChunkSize
  /\ LoopDone =>
       IF f_file.nframes = 0 THEN f_fed = <<>>
       ELSE f_fed # <<>> /\ f_fed[Len(f_fed)].hi = f_file.nframes

\* The loop is done on a buffer of more than one chunk whose last slice is
\* shorter than chunk_size.
C17_Witness ==
  /\ LoopDone
  /\ Len(f_fed) >= 2
  /\ f_fed[Len(f_fed)].hi < f_fed[Len(f_fed)].lo + ChunkSize

----------------------------------------------------------------------------
\* C18: file transcription is deterministic: every call of
\* transcribe_audio_file on the followed file returns what the first call on
\* it returned, whatever was transcribed in between.
C18_SameFileSameText ==
  [][(f_pc # "idle" /\ f_pc' = "idle" /\ returned' /\ f_file = probe
        /\ memo.stage >= 1)
       => vosk_transcript' = memo.value]_vars

\* The followed file was transcribed, then another file, then the followed
\* file again, and its transcript has words.
C18_Witness ==
  /\ memo.stage = 3
  /\ \E w \in WordsOf(memo.value) : Len(w) = 2
  /\ vosk_transcript = memo.value

----------------------------------------------------------------------------
\* The properties of a file that differ from what the recognizer needs.
Mismatched(file) ==
  {p \in {"encoding", "channel count", "sample width", "sample rate"} :
     \/ p = "encoding" /\ ~file.wav
     \/ p = "channel count" /\ file.channels # 1
     \/ p = "sample width" /\ file.sampwidth # 2
     \/ p = "sample rate" /\ file.framerate # SampleRate}

\* The properties a returned message speaks of: the message of line 101
\* lists the sample width, the channel count and the encoding together, that
\* of line 103 gives the sample rate, that of line 126 none.
Named(message, file) ==
  IF message = ErrNotPcm16Mono
    THEN {"sample width", "channel count", "encoding"}
  ELSE IF message = ErrRate(file.framerate) THEN {"sample rate"}
  ELSE {}

\* C19: without librosa a file is accepted only if it is mono, 16-bit,
\* uncompressed PCM at 16000 Hz; any other file is rejected before a chunk is
\* fed, with a message that names the mismatched property and no other.
C19_RejectedNamingProperty ==
  [][(f_pc = "open" /\ vosk_model /\ ~LIBROSA_AVAILABLE /\ f_file.readable) =>
       IF Mismatched(f_file) = {}
         THEN f_pc' = "loop"
         ELSE /\ f_pc' = "idle"
              /\ f_fed' = <<>>
              /\ Named(vosk_transcript', f_file) # {}
              /\ Named(vosk_transcript', f_file) \subseteq Mismatched(f_file)]_vars

----------------------------------------------------------------------------
\* The call in progress is about to be aborted: the model is not loaded, the
\* upload cannot be read, the audio cannot be loaded or is rejected, or AcceptWaveform raises on the
\* next chunk.
Aborting ==
  \/ f_pc = "open" /\ (~vosk_model \/ ~f_file.readable \/ Load(f_file) # "ok")
  \/ f_pc = "loop" /\ ~LoopDone /\ f_file.kinds[f_i + 1] = "bad"

\* The strings transcribe_audio_file returns for an aborted call.
ErrorMessages ==
  {ErrNoModel, ErrNotPcm16Mono, ErrTranscription}
    \cup {ErrRate(file.framerate) : file \in Files}

\* C20: an aborted file transcription leaves the stored
\* st.session_state.vosk_transcript as it was, and no error message is ever
\* stored there (where it is displayed and offered for download).
C20_AbortKeepsTranscript ==
  [][/\ Aborting => vosk_transcript' = vosk_transcript
     /\ vosk_transcript' \notin ErrorMessages]_vars

\* C21: a model directory that does not exist is detected when the recognizer
\* is set up and reported as not found.  In the dashboard a load attempt on
\* an absent path shows "Path not found", leaves model_loaded and the stored
\* recognizer as they were, and transcribe_audio_file creates a recognizer
\* or feeds a chunk only on a stored recognizer whose model is set.  In the
\* panel, without a model no run gets past line 13: no thread is started and
\* nothing is fed.
C21_AbsentModelDetected ==
  /\ [](~model => nsess = 0 /\ \A s \in Sessions : pc[s] = "idle" /\ lastFed[s] = 0)
  /\ [][/\ LoadClicked("absent") =>
             /\ load_message' = PathNotFound
             /\ UNCHANGED <<model_loaded, vosk_recognizer, vosk_model>>
        /\ (f_pc' = "loop" \/ f_fed' # f_fed \/ f_rec' # f_rec) =>
             vosk_recognizer = "object" /\ vosk_model]_vars

\* C21 witness: a load attempt on an absent directory has been reported, with
\* no model loaded and no recognizer stored.
C21_Witness ==
  /\ load_message = PathNotFound
  /\ ~model_loaded
  /\ vosk_recognizer = "None"

\* C22: a failure while a chunk is processed does not end the consumer: after
\* every call of rec.AcceptWaveform the thread is still in its loop with its
\* stream open, and final_text keeps what was finalized before.
C22_ChunkFailureNonFatal ==
  [][\A s \in Sessions :
       (pc[s] = "feed" /\ pc'[s] # "feed") =>
         /\ pc'[s] \in {"while", "store"}
         /\ stream'[s] = "open"
         /\ IsPrefix(final_text[s], final_text'[s])]_vars

\* C23: the capture callback writes neither the recognizer nor final_text (it
\* only enqueues), and an iteration of the render loop writes neither of them:
\* it copies the final_text of its run to the displayed transcript or leaves
\* the loop.
C23_Ownership ==
  [][/\ (nput' # nput \/ \E s \in Sessions : callback(s)) =>
          UNCHANGED <<rec, final_text, newtext>>
     /\ Poll => /\ UNCHANGED <<rec, final_text, newtext>>
                /\ transcript' \in {transcript, final_text[runNs]}]_vars

\* C23 witness: the callback has enqueued chunks and the render loop has
\* displayed a finalized segment while the recognizer holds a later word.
C23_Witness ==
  \E s \in Sessions :
    /\ runNs = s
    /\ inLoop
    /\ nput[s] > 0
    /\ rec[s] # <<>>
    /\ final_text[s] # <<>>
    /\ transcript = final_text[s]

\* C24: after a Clear or Start run has assigned "" to final_text, the
\* final_text that run assigned holds no text finalized before the
\* assignment: that of a run that started no thread stays empty, and that of
\* the run that started the consumer holds only words finalized since, the
\* consumer's read of final_text and its store (line 40) being separate steps.
C24_NoTextFromBeforeReset ==
  /\ final_text[0] = <<>>
  /\ runNs >= 1 => WordsOf(final_text[runNs]) \subseteq WordsOf(finalized[runNs])

\* C24 witness: a consumer has read final_text and computed the new value but
\* not stored it yet, and a Clear run has assigned "" to final_text meanwhile.
C24_Witness ==
  \E s \in Sessions :
    /\ pc[s] = "store"
    /\ newtext[s] # <<>>
    /\ s = nsess
    /\ runNs = 0
    /\ is_listening
    /\ finalized[s] = <<>>

\* C25: the queue a session's consumer reads holds only chunks captured by
\* that session's own stream, from the start of its loop on; a chunk an
\* earlier session left in its queue is never dequeued by a later one.
C25_NoChunkFromEarlierSession ==
  \A s \in Sessions :
    /\ \A i \in 1..Len(q[s]) : q[s][i].sess = s
    /\ data[s].sess \in {0, s}

\* C25 witness: the second session's consumer has dequeued a chunk while the
\* queue of the first still holds a chunk its consumer never took.
C25_Witness ==
  /\ nsess = 2
  /\ q[1] # <<>>
  /\ pc[2] = "feed"
  /\ data[2].sess = 2

\* C26: when transcribe_audio_file has returned, the temporary file it
\* created no longer exists, and a call that returned because no model is
\* loaded created none.
C26_TempFileReleased ==
  /\ f_pc = "idle" => tmp_file # "exists"
  /\ vosk_transcript = ErrNoModel => tmp_file = "none"

\* C27: whatever load attempts were made, while st.session_state.model_loaded
\* is true st.session_state.vosk_recognizer is a recognizer whose model is
\* set, and transcribe_audio_file is only ever in progress on such a
\* recognizer.
C27_LoadedImpliesRecognizer ==
  (model_loaded \/ f_pc # "idle") => (vosk_recognizer = "object" /\ vosk_model)

\* C27 witness: a file is being transcribed after a model was loaded and a
\* later load attempt named a directory that does not exist.
C27_Witness ==
  /\ model_loaded
  /\ load_message = PathNotFound
  /\ f_pc = "loop"
  /\ f_fed # <<>>

====
